---------------------------- MODULE Spec2Model ----------------------------
(***************************************************************************)
(* LockFreeQueue<T, CAPACITY, INDEX_TYPE> of                               *)
(* app/src/main/jni/audio-decoder/queue.h: a single-producer,              *)
(* single-consumer ring buffer with two wrapping atomic counters.          *)
(*                                                                         *)
(* One producer thread (record prod) runs push_range and size, one         *)
(* consumer thread (record cons) runs pop_range and size.  A step of the   *)
(* model is one access to shared memory: an atomic load of a counter, a    *)
(* copy of one slot, an atomic increment of a counter.  The counters are   *)
(* std::atomic with the default (sequentially consistent) ordering, so     *)
(* the interleaving of these steps is the memory model of the code.        *)
(*                                                                         *)
(* INDEX_TYPE is an unsigned type of INDEX_BITS bits, no wider than        *)
(* uint32_t.  length is a uint32_t and is kept at its full width.          *)
(*                                                                         *)
(* Elements of type T are opaque to the queue; element idx of the array    *)
(* given to a push is the number base + idx + 1, base the number of        *)
(* elements accepted before, so that a lost, duplicated or reordered       *)
(* element is visible.  UNINIT stands for a slot of buffer, or a cell of   *)
(* the destination array, that nothing has written.                        *)
(***************************************************************************)
EXTENDS Integers, Sequences, FiniteSets

VARIABLES
    CAPACITY,      \* template parameter: number of slots
    INDEX_BITS,    \* template parameter: bit width of INDEX_TYPE
    candidate,     \* the CAPACITY written in the instantiation, a uint32_t
    compiled,      \* outcome of static_assert(isPowerOfTwo(CAPACITY))
    retry,         \* the batch lengths the two callers keep to, if they do
    loop,          \* a call of a queue of up to 2^31 slots: its check and loop
    buffer,        \* T buffer[CAPACITY]
    writeCounter,  \* std::atomic<INDEX_TYPE>
    readCounter,   \* std::atomic<INDEX_TYPE>
    prod,          \* the producer thread: position and locals of its call
    cons,          \* the consumer thread: position and locals of its call
    dest,          \* the array the consumer passes to pop_range
    prodPre,       \* history: queue state when the producer's call began
    consPre,       \* history: queue state when the consumer's call began
    pushed,        \* history: elements of the push_range calls that returned true
    popped,        \* history: elements of the pop_range calls that returned true
    nWritten,      \* history: number of elements stored and published
    nRead          \* history: number of elements copied out and released

vars == <<CAPACITY, INDEX_BITS, candidate, compiled, retry, loop, buffer, writeCounter, readCounter, prod, cons,
          dest, prodPre, consPre, pushed, popped, nWritten, nRead>>

queueVars == <<buffer, writeCounter, readCounter>>
config == <<CAPACITY, INDEX_BITS, candidate, compiled, retry, loop>>

-----------------------------------------------------------------------------
(* Bounds of the model *)

\* longest batch that fits the arrays of the callers (lengths 0 .. MaxLen)
MaxLen == 5
\* elements the producer offers over a run
MaxPushed == 9
\* lengths 2^32 - k, k in 1 .. MaxWrap, are passed as well
MaxWrap == 1

\* a slot or destination cell nothing has written
UNINIT == 0
\* a counter not loaded yet by the running size()
NOT_LOADED == -1

-----------------------------------------------------------------------------
(* uint32_t arithmetic, exact: a value is two 16-bit halves *)

HALF == 65536

U32(n) == [hi |-> (n \div HALF) % HALF, lo |-> n % HALF]

\* 2^32 - k, for 1 <= k <= 65536
U32Neg(k) == [hi |-> HALF - 1, lo |-> HALF - k]

Add32(a, b) ==
    LET lo == a.lo + b.lo
    IN  [hi |-> (a.hi + b.hi + (lo \div HALF)) % HALF, lo |-> lo % HALF]

Sub32(a, b) ==
    LET lo == a.lo - b.lo
    IN  [hi |-> (a.hi - b.hi - (IF lo < 0 THEN 1 ELSE 0)) % HALF, lo |-> lo % HALF]

Gt32(a, b) == a.hi > b.hi \/ (a.hi = b.hi /\ a.lo > b.lo)

Lt32(a, b) == Gt32(b, a)

\* a uint32_t value modulo m
Mod32(a, m) == ((a.hi % m) * (HALF % m) + a.lo) % m

\* at least 2^31: beyond the range of the int32_t loop counter
Huge(a) == a.hi >= HALF \div 2

\* the number a uint32_t below 2^31 stands for
ToNat(a) == a.hi * HALF + a.lo

-----------------------------------------------------------------------------
(* Helpers of the class *)

RECURSIVE BitAnd(_, _)
BitAnd(a, b) ==
    IF a = 0 \/ b = 0 THEN 0
    ELSE (a % 2) * (b % 2) + 2 * BitAnd(a \div 2, b \div 2)

And32(a, b) == [hi |-> BitAnd(a.hi, b.hi), lo |-> BitAnd(a.lo, b.lo)]

\* n is a uint32_t
isPowerOfTwo(n) == And32(n, Sub32(n, U32(1))) = U32(0)

\* number of values of INDEX_TYPE
IndexRange == 2 ^ INDEX_BITS

\* the mask that keeps the wrong bit: CAPACITY for CAPACITY - 1
mask_capacity(n) == BitAnd(n, CAPACITY) % CAPACITY

\* n & (CAPACITY - 1)
mask(n) == BitAnd(n, CAPACITY - 1) % IndexRange

\* the distance of the counters taken without the wrap of INDEX_TYPE
sizeOf_abs(w, r) == IF w >= r THEN w - r ELSE r - w

\* the value size() returns from the two counters it loaded
sizeOf(w, r) == (w - r) % IndexRange

\* ++counter on an atomic INDEX_TYPE
Incr(c) == (c + 1) % IndexRange

\* items[idx] of the array the running push_range was given
ItemAt(p, idx) == p.base + idx + 1

\* items[length - d] of an array of 2^31 elements or more
TailItem(d) == 0 - d

Idle == [pc |-> "idle", op |-> "none", len |-> U32(0), base |-> 0, idx |-> 0,
         lw |-> NOT_LOADED, lr |-> NOT_LOADED, sz |-> 0, ret |-> "none"]

Snapshot == [w |-> writeCounter, r |-> readCounter, buf |-> buffer,
             stored |-> nWritten - nRead]

NoSnapshot == [w |-> 0, r |-> 0, buf |-> <<>>, stored |-> 0]

FreshDest == [i \in 0 .. MaxLen |-> UNINIT]

\* callers that pass any length
NoRetry == [push |-> 0, pop |-> 0]

\* no call of a large queue is followed
NoLoop == [op |-> "none", pc |-> "idle", sz |-> U32(0), len |-> U32(0),
           idx |-> 0, ret |-> "none"]

-----------------------------------------------------------------------------
(* Template instantiations *)

\* CAPACITY a power of two, less than the number of values of INDEX_TYPE
ValidConfigs == {[bits |-> 2, cap |-> 2], [bits |-> 3, cap |-> 2],
                 [bits |-> 3, cap |-> 4]}

\* CAPACITY equal to the number of values of INDEX_TYPE
FullRangeConfigs == {[bits |-> 1, cap |-> 2], [bits |-> 2, cap |-> 4]}

\* batch lengths the callers pass
Lengths == {U32(n) : n \in 0 .. MaxLen} \cup {U32Neg(k) : k \in 1 .. MaxWrap}

InitWith(configs) ==
    /\ \E c \in configs :
          /\ isPowerOfTwo(U32(c.cap))
          /\ CAPACITY = c.cap /\ INDEX_BITS = c.bits
          /\ candidate = U32(c.cap)
    /\ compiled = "ok"
    /\ loop = NoLoop
    /\ buffer = [i \in 0 .. CAPACITY - 1 |-> UNINIT]
    /\ writeCounter = 0
    /\ readCounter = 0
    /\ prod = Idle
    /\ cons = Idle
    /\ dest = FreshDest
    /\ prodPre = NoSnapshot
    /\ consPre = NoSnapshot
    /\ pushed = <<>>
    /\ popped = <<>>
    /\ nWritten = 0
    /\ nRead = 0

Init == InitWith(ValidConfigs) /\ retry = NoRetry

-----------------------------------------------------------------------------
(* size(), as run by either thread: two atomic loads, in either order *)

\* the thread once size() has loaded both counters and returned (its two
\* operands are dead from then on)
SizeReturns(t) ==
    IF t.lw = NOT_LOADED \/ t.lr = NOT_LOADED THEN t
    ELSE [t EXCEPT !.sz = sizeOf(t.lw, t.lr),
                   !.lw = NOT_LOADED, !.lr = NOT_LOADED,
                   !.pc = IF t.op = "size" THEN "ret" ELSE "check",
                   !.ret = IF t.op = "size" THEN "value" ELSE "none"]

LoadWrite(t) == SizeReturns([t EXCEPT !.lw = writeCounter])

LoadRead(t) == SizeReturns([t EXCEPT !.lr = readCounter])

\* the loop test with <= for <: one iteration too many
LoopTest_inclusive(t) ==
    IF ~Gt32(U32(t.idx), t.len) THEN [t EXCEPT !.pc = "copy"]
    ELSE [t EXCEPT !.pc = "ret", !.ret = "true"]

\* for (int32_t idx = ...; idx < length; ...): the test, idx converted to uint32_t
LoopTest(t) ==
    IF Lt32(U32(t.idx), t.len) THEN [t EXCEPT !.pc = "copy"]
    ELSE [t EXCEPT !.pc = "ret", !.ret = "true"]

\* the first n elements of the array given to the running push_range
ItemsOf(p, n) == [i \in 1 .. n |-> ItemAt(p, i - 1)]

\* the first n cells of the destination array
DestOf(n) == [i \in 1 .. n |-> dest[i - 1]]

-----------------------------------------------------------------------------
(* The producer thread *)

prod_call_push_range ==
    /\ prod.pc = "idle"
    /\ \E len \in Lengths :
          /\ IF Huge(len) THEN Len(pushed) <= MaxPushed
                          ELSE Len(pushed) + ToNat(len) <= MaxPushed
          /\ prod' = [Idle EXCEPT !.pc = "size", !.op = "push_range",
                                  !.len = len, !.base = Len(pushed)]
    /\ UNCHANGED <<config, queueVars, cons, dest, pushed, popped,
                   nWritten, nRead>>

prod_call_size ==
    /\ prod.pc = "idle"
    /\ prod' = [Idle EXCEPT !.pc = "size", !.op = "size"]
    /\ UNCHANGED <<config, queueVars, cons, dest, pushed, popped,
                   nWritten, nRead>>

prod_size_load_write ==
    /\ prod.pc = "size"
    /\ prod.lw = NOT_LOADED
    /\ prod' = LoadWrite(prod)
    /\ UNCHANGED <<config, queueVars, cons, dest, pushed,
                   popped, nWritten, nRead>>

prod_size_load_read ==
    /\ prod.pc = "size"
    /\ prod.lr = NOT_LOADED
    /\ prod' = LoadRead(prod)
    /\ UNCHANGED <<config, queueVars, cons, dest, pushed,
                   popped, nWritten, nRead>>

\* the check with >= for >: the last free slot is never filled
PushRejects_geq(p) == ~Lt32(Add32(U32(p.sz), p.len), U32(CAPACITY))

\* size() + length > CAPACITY, the three as uint32_t: size() is converted
\* to uint32_t and the sum is taken modulo 2^32
PushRejects32(sz, len, cap) == Gt32(Add32(sz, len), cap)

\* if (size() + length > CAPACITY) return false;
PushRejects(p) == PushRejects32(U32(p.sz), p.len, U32(CAPACITY))

\* the capacity check made after the first element was stored
push_range_check_late ==
    /\ prod.pc = "check"
    /\ prod.op = "push_range"
    /\ prod' = IF PushRejects(prod)
               THEN [prod EXCEPT !.pc = "ret", !.ret = "false", !.sz = 0]
               ELSE LoopTest([prod EXCEPT !.idx = 0, !.sz = 0])
    /\ buffer' = IF Gt32(prod.len, U32(0))
                 THEN [buffer EXCEPT ![mask(writeCounter)] = ItemAt(prod, 0)]
                 ELSE buffer
    /\ pushed' = IF prod'.ret = "true" THEN pushed \o ItemsOf(prod, ToNat(prod.len))
                 ELSE pushed
    /\ UNCHANGED <<config, writeCounter, readCounter, cons, dest, popped, nWritten, nRead>>

push_range_check ==
    /\ prod.pc = "check"
    /\ prod.op = "push_range"
    /\ prod' = IF PushRejects(prod)
               THEN [prod EXCEPT !.pc = "ret", !.ret = "false", !.sz = 0]
               ELSE LoopTest([prod EXCEPT !.idx = 0, !.sz = 0])
    /\ pushed' = IF prod'.ret = "true" THEN pushed \o ItemsOf(prod, ToNat(prod.len))
                 ELSE pushed
    /\ UNCHANGED <<config, queueVars, cons, dest, popped,
                   nWritten, nRead>>

\* the copy that takes items[0] on every iteration
push_range_copy_first ==
    /\ prod.pc = "copy"
    /\ prod.op = "push_range"
    /\ prod.idx <= CAPACITY
    /\ buffer' = [buffer EXCEPT ![mask(writeCounter)] = ItemAt(prod, 0)]
    /\ prod' = [prod EXCEPT !.pc = "inc"]
    /\ UNCHANGED <<config, writeCounter, readCounter, cons, dest, pushed, popped, nWritten, nRead>>

\* buffer[mask(writeCounter)] = items[idx];
\* (the model follows the first CAPACITY + 1 iterations of a call one by one)
push_range_copy ==
    /\ prod.pc = "copy"
    /\ prod.op = "push_range"
    /\ prod.idx <= CAPACITY
    /\ buffer' = [buffer EXCEPT ![mask(writeCounter)] = ItemAt(prod, prod.idx)]
    /\ prod' = [prod EXCEPT !.pc = "inc"]
    /\ UNCHANGED <<config, writeCounter, readCounter, cons, dest, pushed, popped, nWritten, nRead>>

\* ++writeCounter; ++idx; and the loop test
push_range_inc ==
    /\ prod.pc = "inc"
    /\ prod.op = "push_range"
    /\ writeCounter' = Incr(writeCounter)
    /\ nWritten' = nWritten + 1
    /\ prod' = LoopTest([prod EXCEPT !.idx = prod.idx + 1])
    /\ pushed' = IF prod'.ret = "true" THEN pushed \o ItemsOf(prod, ToNat(prod.len))
                 ELSE pushed
    /\ UNCHANGED <<config, buffer, readCounter, cons, dest, popped, nRead>>

\* The rest of the loop of a push admitted with a length of 2^31 or more,
\* taken at once (no other thread runs meanwhile).  The iterations up to
\* idx = 2^31 - 1 are defined; ++idx then overflows the int32_t, which is
\* undefined.  One outcome of a build: the loop goes on until idx, as a
\* uint32_t, reaches length, so that length elements were stored and
\* published in all, the last CAPACITY of them left in buffer.  Of the
\* elements in between the histories keep none: pushed takes the elements
\* stored one by one and the last CAPACITY, and nWritten counts as stored
\* what the counters leave in the queue.
push_range_overrun_completes ==
    /\ prod.pc = "copy"
    /\ prod.op = "push_range"
    /\ prod.idx > CAPACITY
    /\ Huge(prod.len)
    /\ LET left == Sub32(prod.len, U32(prod.idx))
           last == (writeCounter + Mod32(left, IndexRange)) % IndexRange
       IN  /\ writeCounter' = last
           /\ buffer' = [s \in 0 .. CAPACITY - 1 |->
                           LET d == CHOOSE e \in 1 .. CAPACITY :
                                        mask((last - e) % IndexRange) = s
                           IN  TailItem(d)]
    /\ prod' = [prod EXCEPT !.pc = "ret", !.ret = "true"]
    /\ pushed' = pushed \o ItemsOf(prod, prod.idx)
                        \o [i \in 1 .. CAPACITY |-> TailItem(CAPACITY + 1 - i)]
    /\ nWritten' = nRead + ((writeCounter' - readCounter) % IndexRange)
    /\ UNCHANGED <<config, readCounter, cons, dest, popped,
                   nRead>>

\* The other outcome of the overflow of idx: idx turns negative, items[idx]
\* is read outside the array and the process is killed.
push_range_overrun_crashes ==
    /\ prod.pc = "copy"
    /\ prod.op = "push_range"
    /\ prod.idx > CAPACITY
    /\ Huge(prod.len)
    /\ prod' = [prod EXCEPT !.pc = "crashed"]
    /\ UNCHANGED <<config, queueVars, cons, dest, pushed,
                   popped, nWritten, nRead>>

prod_return ==
    /\ prod.pc = "ret"
    /\ prod' = Idle
    /\ UNCHANGED <<config, queueVars, cons, dest, pushed, popped,
                   nWritten, nRead>>

-----------------------------------------------------------------------------
(* The consumer thread *)

cons_call_pop_range ==
    /\ cons.pc = "idle"
    /\ \E len \in Lengths :
          cons' = [Idle EXCEPT !.pc = "size", !.op = "pop_range", !.len = len]
    /\ dest' = FreshDest
    /\ UNCHANGED <<config, queueVars, prod, pushed, popped, nWritten,
                   nRead>>

cons_call_size ==
    /\ cons.pc = "idle"
    /\ cons' = [Idle EXCEPT !.pc = "size", !.op = "size"]
    /\ UNCHANGED <<config, queueVars, prod, dest, pushed, popped,
                   nWritten, nRead>>

cons_size_load_write ==
    /\ cons.pc = "size"
    /\ cons.lw = NOT_LOADED
    /\ cons' = LoadWrite(cons)
    /\ UNCHANGED <<config, queueVars, prod, dest, pushed,
                   popped, nWritten, nRead>>

cons_size_load_read ==
    /\ cons.pc = "size"
    /\ cons.lr = NOT_LOADED
    /\ cons' = LoadRead(cons)
    /\ UNCHANGED <<config, queueVars, prod, dest, pushed,
                   popped, nWritten, nRead>>

\* the check with >= for >: a pop of everything stored is refused
PopRejects_geq(c) == ~Lt32(c.len, U32(c.sz))

\* length > size(), the two as uint32_t
PopRejects32(len, sz) == Gt32(len, sz)

\* if (length > size()) return false;
PopRejects(c) == PopRejects32(c.len, U32(c.sz))

pop_range_check ==
    /\ cons.pc = "check"
    /\ cons.op = "pop_range"
    /\ cons' = IF PopRejects(cons)
               THEN [cons EXCEPT !.pc = "ret", !.ret = "false", !.sz = 0]
               ELSE LoopTest([cons EXCEPT !.idx = 0, !.sz = 0])
    /\ popped' = IF cons'.ret = "true" THEN popped \o DestOf(ToNat(cons.len))
                 ELSE popped
    /\ UNCHANGED <<config, queueVars, prod, dest, pushed,
                   nWritten, nRead>>

\* the copy that reads the slot after the one readCounter names
pop_range_copy_next ==
    /\ cons.pc = "copy"
    /\ cons.op = "pop_range"
    /\ dest' = [dest EXCEPT ![cons.idx] = buffer[mask(Incr(readCounter))]]
    /\ cons' = [cons EXCEPT !.pc = "inc"]
    /\ UNCHANGED <<config, queueVars, prod, pushed, popped,
                   nWritten, nRead>>

\* items[idx] = buffer[mask(readCounter)];
pop_range_copy ==
    /\ cons.pc = "copy"
    /\ cons.op = "pop_range"
    /\ dest' = [dest EXCEPT ![cons.idx] = buffer[mask(readCounter)]]
    /\ cons' = [cons EXCEPT !.pc = "inc"]
    /\ UNCHANGED <<config, queueVars, prod, pushed, popped,
                   nWritten, nRead>>

\* the consumer that releases a slot by taking the write counter back
pop_range_inc_release ==
    /\ cons.pc = "inc"
    /\ cons.op = "pop_range"
    /\ writeCounter' = (writeCounter - 1) % IndexRange
    /\ nRead' = nRead + 1
    /\ cons' = LoopTest([cons EXCEPT !.idx = cons.idx + 1])
    /\ popped' = IF cons'.ret = "true" THEN popped \o DestOf(ToNat(cons.len))
                 ELSE popped
    /\ UNCHANGED <<config, buffer, readCounter, prod, dest, pushed, nWritten>>

\* ++readCounter; ++idx; and the loop test
pop_range_inc ==
    /\ cons.pc = "inc"
    /\ cons.op = "pop_range"
    /\ readCounter' = Incr(readCounter)
    /\ nRead' = nRead + 1
    /\ cons' = LoopTest([cons EXCEPT !.idx = cons.idx + 1])
    /\ popped' = IF cons'.ret = "true" THEN popped \o DestOf(ToNat(cons.len))
                 ELSE popped
    /\ UNCHANGED <<config, buffer, writeCounter, prod, dest, pushed, nWritten>>

cons_return ==
    /\ cons.pc = "ret"
    /\ cons' = Idle
    /\ dest' = FreshDest
    /\ UNCHANGED <<config, queueVars, prod, pushed, popped, nWritten,
                   nRead>>

-----------------------------------------------------------------------------
(* Specifications *)

\* the history of a call is not kept while the threads run in parallel
NoPre == UNCHANGED <<prodPre, consPre>>

\* producer and consumer run in parallel
Next ==
    \/ prod_call_push_range /\ NoPre
    \/ prod_call_size /\ NoPre
    \/ prod_size_load_write /\ NoPre
    \/ prod_size_load_read /\ NoPre
    \/ push_range_check /\ NoPre
    \/ push_range_copy /\ NoPre
    \/ push_range_inc /\ NoPre
    \/ prod_return /\ NoPre
    \/ cons_call_pop_range /\ NoPre
    \/ cons_call_size /\ NoPre
    \/ cons_size_load_write /\ NoPre
    \/ cons_size_load_read /\ NoPre
    \/ pop_range_check /\ NoPre
    \/ pop_range_copy /\ NoPre
    \/ pop_range_inc /\ NoPre
    \/ cons_return /\ NoPre

Spec == Init /\ [][Next]_vars

\* history: the queue as it was when the running call began
KeepPre ==
    /\ prodPre' = IF prod'.pc = "idle" THEN NoSnapshot
                  ELSE IF prod.pc = "idle" THEN Snapshot ELSE prodPre
    /\ consPre' = IF cons'.pc = "idle" THEN NoSnapshot
                  ELSE IF cons.pc = "idle" THEN Snapshot ELSE consPre

\* one call at a time: a thread steps only while the other is not in a call
NextSeq ==
    \/ cons.pc = "idle" /\ prod_call_push_range /\ KeepPre
    \/ cons.pc = "idle" /\ prod_call_size /\ KeepPre
    \/ cons.pc = "idle" /\ prod_size_load_write /\ KeepPre
    \/ cons.pc = "idle" /\ prod_size_load_read /\ KeepPre
    \/ cons.pc = "idle" /\ push_range_check /\ KeepPre
    \/ cons.pc = "idle" /\ push_range_copy /\ KeepPre
    \/ cons.pc = "idle" /\ push_range_inc /\ KeepPre
    \/ cons.pc = "idle" /\ push_range_overrun_completes /\ KeepPre
    \/ cons.pc = "idle" /\ push_range_overrun_crashes /\ KeepPre
    \/ cons.pc = "idle" /\ prod_return /\ KeepPre
    \/ prod.pc = "idle" /\ cons_call_pop_range /\ KeepPre
    \/ prod.pc = "idle" /\ cons_call_size /\ KeepPre
    \/ prod.pc = "idle" /\ cons_size_load_write /\ KeepPre
    \/ prod.pc = "idle" /\ cons_size_load_read /\ KeepPre
    \/ prod.pc = "idle" /\ pop_range_check /\ KeepPre
    \/ prod.pc = "idle" /\ pop_range_copy /\ KeepPre
    \/ prod.pc = "idle" /\ pop_range_inc /\ KeepPre
    \/ prod.pc = "idle" /\ cons_return /\ KeepPre

SpecSeq == Init /\ [][NextSeq]_vars

\* one call at a time, CAPACITY up to the whole range of INDEX_TYPE
SpecSeqAnyConfig ==
    /\ InitWith(ValidConfigs \cup FullRangeConfigs) /\ retry = NoRetry
    /\ [][NextSeq]_vars

-----------------------------------------------------------------------------
(* Vocabulary of the properties *)

IsPrefix(s, t) ==
    /\ Len(s) <= Len(t)
    /\ \A i \in 1 .. Len(s) : s[i] = t[i]

\* (writeCounter - readCounter) mod 2^bit-width, from the counters themselves
Occupancy == (writeCounter - readCounter) % (2 ^ INDEX_BITS)

\* the same of the counters as they were when the call began
PreSize(pre) == (pre.w - pre.r) % (2 ^ INDEX_BITS)

\* slot of the logical position k places after counter value c
SlotOf(c, k) == ((c + k) % (2 ^ INDEX_BITS)) % CAPACITY

PushReturned == prod.pc = "ret" /\ prod.op = "push_range"
PopReturned == cons.pc = "ret" /\ cons.op = "pop_range"

\* no call is running
Quiescent == prod.pc \in {"idle", "ret"} /\ cons.pc \in {"idle", "ret"}

\* both counters have wrapped past the maximum of INDEX_TYPE
BothWrapped == nWritten > 2 ^ INDEX_BITS /\ nRead > 2 ^ INDEX_BITS

\* the elements the running pop_range has copied out so far
Copied ==
    IF cons.op = "pop_range" /\ cons.pc = "copy" THEN DestOf(cons.idx)
    ELSE IF cons.op = "pop_range" /\ cons.pc = "inc" THEN DestOf(cons.idx + 1)
    ELSE <<>>

\* the elements of the running push_range, once it has passed the capacity
\* check (of an array of 2^31 elements or more: those stored so far)
Admitted ==
    IF prod.op = "push_range" /\ prod.pc \in {"copy", "inc"}
    THEN ItemsOf(prod, IF ~Huge(prod.len) THEN ToNat(prod.len)
                       ELSE IF prod.pc = "copy" THEN prod.idx ELSE prod.idx + 1)
    ELSE <<>>

\* the value size() has just returned to thread t, if it has
SizeSeen(t) == t.pc = "check" \/ (t.pc = "ret" /\ t.op = "size")

-----------------------------------------------------------------------------
(* C1 - strict FIFO, one call at a time (SpecSeq) *)

\* C1: at every point of every sequence of push_range and pop_range calls, of
\* any batch lengths, the elements delivered by the pops that returned true
\* are, in order, a prefix of the elements accepted by the pushes that
\* returned true; a pop that returns true hands back exactly the next
\* elements of that stream.
C1_StrictFifo ==
    /\ IsPrefix(popped, pushed)
    /\ (PopReturned /\ cons.ret = "true") =>
          \A i \in 0 .. ToNat(cons.len) - 1 :
              dest[i] = pushed[Len(popped) - ToNat(cons.len) + i + 1]

-----------------------------------------------------------------------------
(* C2 - occupancy bound (SpecSeq) *)

\* C2: after every push_range or pop_range call of every sequence of calls,
\* counters wrapped or not, (writeCounter - readCounter) mod 2^bit-width is
\* in [0, CAPACITY].
C2_OccupancyBound == Quiescent => Occupancy \in 0 .. CAPACITY

\* a full queue after both counters wrapped, the write counter numerically
\* below the read counter
C2_Witness ==
    /\ BothWrapped
    /\ PushReturned /\ prod.ret = "true" /\ cons.pc = "idle"
    /\ Occupancy = CAPACITY
    /\ writeCounter < readCounter

-----------------------------------------------------------------------------
(* C3 - a failed push_range changes nothing (SpecSeq) *)

\* C3: when push_range returns false no slot of buffer was written, both
\* counters are as before the call and size() is as before the call.
C3_PushFailureAtomic ==
    (PushReturned /\ prod.ret = "false") =>
        /\ buffer = prodPre.buf
        /\ writeCounter = prodPre.w
        /\ readCounter = prodPre.r
        /\ Occupancy = PreSize(prodPre)

\* a push of a batch that would fit an empty queue, refused by a non-empty one
C3_Witness ==
    /\ PushReturned /\ prod.ret = "false"
    /\ ~Huge(prod.len) /\ ToNat(prod.len) \in 1 .. CAPACITY
    /\ PreSize(prodPre) > 0

-----------------------------------------------------------------------------
(* C4 - a failed pop_range changes nothing (SpecSeq) *)

\* C4: pop_range returns false exactly when count exceeds size() as it is at
\* the call, and then no cell of the destination array was written, both
\* counters, buffer and size() are as before the call.
C4_PopFailureAtomic ==
    PopReturned =>
        /\ cons.ret = "false" <=>
              (Huge(cons.len) \/ ToNat(cons.len) > PreSize(consPre))
        /\ cons.ret = "false" =>
              /\ dest = FreshDest
              /\ readCounter = consPre.r
              /\ writeCounter = consPre.w
              /\ buffer = consPre.buf
              /\ Occupancy = PreSize(consPre)

\* a pop of one more than the non-empty queue holds, refused
C4_Witness ==
    /\ PopReturned /\ cons.ret = "false"
    /\ PreSize(consPre) > 0
    /\ ~Huge(cons.len) /\ ToNat(cons.len) = PreSize(consPre) + 1

-----------------------------------------------------------------------------
(* C5 - one producer and one consumer in parallel (Spec) *)

\* C5: with the calls of the two threads interleaved step by step and
\* batches of arbitrary lengths, the elements the consumer has copied out
\* are, in order, a prefix of the elements of the pushes that passed the
\* capacity check, and every value size() returns to either thread is in
\* [0, CAPACITY].
C5_SpscFifo ==
    /\ IsPrefix(popped \o Copied, pushed \o Admitted)
    /\ SizeSeen(prod) => prod.sz \in 0 .. CAPACITY
    /\ SizeSeen(cons) => cons.sz \in 0 .. CAPACITY

-----------------------------------------------------------------------------
(* C6 - the capacity boundary (SpecSeqAnyConfig) *)

-----------------------------------------------------------------------------
(* C7 - a push_range that fits (SpecSeq) *)

\* C7: a push_range of count elements called with size() + count <= CAPACITY
\* and no pop running returns true, has advanced writeCounter by count
\* modulo 2^bit-width, has stored the elements in argument order in the slots
\* (writeCounter_before + i) mod CAPACITY, has left the slots of the
\* elements that were unconsumed as they were, and has raised size() by
\* count.
C7_PushSuccess ==
    (/\ PushReturned
     /\ ~Huge(prod.len)
     /\ PreSize(prodPre) + ToNat(prod.len) <= CAPACITY) =>
        /\ prod.ret = "true"
        /\ writeCounter = (prodPre.w + ToNat(prod.len)) % (2 ^ INDEX_BITS)
        /\ readCounter = prodPre.r
        /\ \A i \in 0 .. ToNat(prod.len) - 1 :
               buffer[SlotOf(prodPre.w, i)] = ItemAt(prod, i)
        /\ \A j \in 0 .. PreSize(prodPre) - 1 :
               buffer[SlotOf(prodPre.r, j)] = prodPre.buf[SlotOf(prodPre.r, j)]
        /\ Occupancy = PreSize(prodPre) + ToNat(prod.len)

\* a batch of two or more stored across the end of buffer, next to elements
\* not yet consumed, after the write counter wrapped
C7_Witness ==
    /\ PushReturned /\ prod.ret = "true"
    /\ ~Huge(prod.len) /\ ToNat(prod.len) >= 2
    /\ PreSize(prodPre) > 0
    /\ SlotOf(prodPre.w, ToNat(prod.len) - 1) < SlotOf(prodPre.w, 0)
    /\ nWritten > 2 ^ INDEX_BITS

-----------------------------------------------------------------------------
(* C8 - a pop_range that is covered (SpecSeq) *)

\* C8: a pop_range of count elements called with count <= size() and no push
\* running returns true, has copied into cell i of the destination the
\* element of slot (readCounter_before + i) mod CAPACITY for every i below
\* count and written no other cell, has advanced readCounter by count modulo
\* 2^bit-width, has lowered size() by count, and has changed neither buffer
\* nor writeCounter.
C8_PopSuccess ==
    (/\ PopReturned
     /\ ~Huge(cons.len)
     /\ ToNat(cons.len) <= PreSize(consPre)) =>
        /\ cons.ret = "true"
        /\ \A i \in 0 .. MaxLen :
               dest[i] = IF i < ToNat(cons.len)
                         THEN consPre.buf[SlotOf(consPre.r, i)]
                         ELSE UNINIT
        /\ readCounter = (consPre.r + ToNat(cons.len)) % (2 ^ INDEX_BITS)
        /\ Occupancy = PreSize(consPre) - ToNat(cons.len)
        /\ buffer = consPre.buf
        /\ writeCounter = consPre.w

\* a batch of two or more read across the end of buffer by a call during
\* which the read counter wrapped
C8_Witness ==
    /\ PopReturned /\ cons.ret = "true"
    /\ ~Huge(cons.len) /\ ToNat(cons.len) >= 2
    /\ SlotOf(consPre.r, ToNat(cons.len) - 1) < SlotOf(consPre.r, 0)
    /\ readCounter < consPre.r

-----------------------------------------------------------------------------
(* C9 - hand-off of a slot between the threads (Spec) *)

\* C9: in every interleaving of one producer call and one consumer call, the
\* slot the consumer is about to load holds an element whose store and
\* counter increment are complete, the slot the producer is about to store
\* to holds no element that is waiting to be consumed, and the two threads
\* never have a store and a load of the same slot pending together.
C9_SlotHandOff ==
    /\ (cons.op = "pop_range" /\ cons.pc = "copy") => nRead < nWritten
    /\ (prod.op = "push_range" /\ prod.pc = "copy") =>
           nWritten - nRead < CAPACITY
    /\ ~(/\ prod.op = "push_range" /\ prod.pc = "copy"
         /\ cons.op = "pop_range" /\ cons.pc = "copy"
         /\ mask(writeCounter) = mask(readCounter))

-----------------------------------------------------------------------------
(* C10 - who writes what (Spec) *)

\* C10: no step of the producer thread, in push_range or size(), changes
\* readCounter; no step of the consumer thread, in pop_range or size(),
\* changes writeCounter or buffer; no step of size() changes anything of the
\* queue; and a step that changes a counter adds one to it modulo
\* 2^bit-width, never takes from it.
C10_CounterOwnership ==
    [][ /\ prod' # prod => readCounter' = readCounter
        /\ cons' # cons => (writeCounter' = writeCounter /\ buffer' = buffer)
        /\ (prod' # prod /\ prod.op = "size" /\ prod.pc # "idle") =>
               UNCHANGED queueVars
        /\ (cons' # cons /\ cons.op = "size" /\ cons.pc # "idle") =>
               UNCHANGED queueVars
        /\ writeCounter' \in {writeCounter, (writeCounter + 1) % (2 ^ INDEX_BITS)}
        /\ readCounter' \in {readCounter, (readCounter + 1) % (2 ^ INDEX_BITS)}
      ]_vars

\* both threads inside their copy loops with both counters wrapped and each
\* having advanced its own counter during the call
C10_Witness ==
    /\ BothWrapped
    /\ prod.op = "push_range" /\ prod.pc = "copy" /\ prod.idx > 0
    /\ cons.op = "pop_range" /\ cons.pc = "copy" /\ cons.idx > 0

-----------------------------------------------------------------------------
(* C11 - no call waits (SpecProgress) *)

\* the steps of the producer inside a call, the rest of an overlong loop
\* taken at once
ProducerRuns ==
    \/ prod_size_load_write
    \/ prod_size_load_read
    \/ push_range_check
    \/ push_range_copy
    \/ push_range_inc
    \/ push_range_overrun_completes
    \/ push_range_overrun_crashes

\* the steps of the consumer inside a call
ConsumerRuns ==
    \/ cons_size_load_write
    \/ cons_size_load_read
    \/ pop_range_check
    \/ pop_range_copy
    \/ pop_range_inc

\* an overlong push_range has run to its end
OverlongReturned == \E i \in DOMAIN pushed : pushed[i] < 0

\* Producer and consumer in parallel, the loop of push_range run to its end.
\* A run is followed until an overlong push_range has returned and the
\* calls then in progress have returned; a fault in the loop ends the
\* process, the consumer thread with it.
NextProgress ==
    \/ ~OverlongReturned /\ prod_call_push_range /\ NoPre
    \/ ~OverlongReturned /\ prod_call_size /\ NoPre
    \/ ProducerRuns /\ NoPre
    \/ prod_return /\ NoPre
    \/ ~OverlongReturned /\ prod.pc # "crashed" /\ cons_call_pop_range /\ NoPre
    \/ ~OverlongReturned /\ prod.pc # "crashed" /\ cons_call_size /\ NoPre
    \/ prod.pc # "crashed" /\ ConsumerRuns /\ NoPre
    \/ prod.pc # "crashed" /\ cons_return /\ NoPre

\* a thread that is inside a call is scheduled again; nothing is assumed of
\* a caller between two calls
SpecProgress ==
    /\ Init
    /\ [][NextProgress]_vars
    /\ WF_vars(ProducerRuns /\ NoPre)
    /\ WF_vars(prod.pc # "crashed" /\ ConsumerRuns /\ NoPre)

ProducerInCall == prod.pc \notin {"idle", "ret"}
ConsumerInCall == cons.pc \notin {"idle", "ret"}

\* C11: every call of push_range, pop_range or size() that has begun returns:
\* a thread inside a call reaches its return, given only that it is
\* scheduled itself, wherever the other thread is.
C11_NonBlocking ==
    /\ ProducerInCall ~> (prod.pc = "ret")
    /\ ConsumerInCall ~> (cons.pc = "ret")

-----------------------------------------------------------------------------
(* C12 - the capacity check of push_range, for every length (SpecSeq) *)

\* the running push_range is past its capacity check
PushDecided ==
    prod.op = "push_range" /\ prod.pc \in {"copy", "inc", "ret", "crashed"}

\* C12: for every occupancy in 0 .. CAPACITY and every length in
\* 0 .. 2^32 - 1, a push_range whose occupancy + length, as integers, is
\* above CAPACITY fails: it is past its check only by having returned false.
C12_PushCheckExact ==
    (/\ PushDecided
     /\ Huge(prod.len) \/ PreSize(prodPre) + ToNat(prod.len) > CAPACITY) =>
        (prod.pc = "ret" /\ prod.ret = "false")

-----------------------------------------------------------------------------
(* C13 - the compile-time check of CAPACITY (SpecCompile) *)

\* values 0 .. MaxCandidate are tried as CAPACITY, with the values below
MaxCandidate == 40

\* 2^k as a uint32_t, k in 0 .. 31
PowerOfTwo32(k) ==
    IF k < 16 THEN [hi |-> 0, lo |-> 2 ^ k] ELSE [hi |-> 2 ^ (k - 16), lo |-> 0]

\* the values of CAPACITY tried: the small ones, every power of two of a
\* uint32_t with its two neighbours, and the largest value
Candidates ==
    {U32(n) : n \in 0 .. MaxCandidate}
    \cup {PowerOfTwo32(k) : k \in 0 .. 31}
    \cup {Sub32(PowerOfTwo32(k), U32(1)) : k \in 0 .. 31}
    \cup {Add32(PowerOfTwo32(k), U32(1)) : k \in 0 .. 31}

\* an instantiation LockFreeQueue<T, candidate, INDEX_TYPE> not yet compiled
InitCompile ==
    /\ candidate \in Candidates
    /\ compiled = "pending"
    /\ retry = NoRetry
    /\ loop = NoLoop
    /\ CAPACITY = 2 /\ INDEX_BITS = 2
    /\ buffer = [i \in 0 .. CAPACITY - 1 |-> UNINIT]
    /\ writeCounter = 0
    /\ readCounter = 0
    /\ prod = Idle
    /\ cons = Idle
    /\ dest = FreshDest
    /\ prodPre = NoSnapshot
    /\ consPre = NoSnapshot
    /\ pushed = <<>>
    /\ popped = <<>>
    /\ nWritten = 0
    /\ nRead = 0

\* static_assert(isPowerOfTwo(CAPACITY), "Capacity must be a power of 2");
static_assert_isPowerOfTwo ==
    /\ compiled = "pending"
    /\ compiled' = IF isPowerOfTwo(candidate) THEN "ok" ELSE "error"
    /\ UNCHANGED <<CAPACITY, INDEX_BITS, candidate, retry, loop, queueVars, prod, cons,
                   dest, prodPre, consPre, pushed, popped, nWritten, nRead>>

NextCompile == static_assert_isPowerOfTwo

SpecCompile == InitCompile /\ [][NextCompile]_vars

\* C13: isPowerOfTwo(n) is true exactly for n = 1, 2, 4, ..., 2^31 and false
\* for every other uint32_t, 0 included, so that an instantiation compiles
\* exactly when its CAPACITY is a positive power of two.
C13_IsPowerOfTwoExact ==
    compiled # "pending" =>
        (compiled = "ok" <=> \E k \in 0 .. 31 : candidate = PowerOfTwo32(k))

-----------------------------------------------------------------------------
(* C14 - size() against the unbounded counts (SpecSeq) *)

\* C14: in every state where no push_range or pop_range is in progress, and
\* whatever the number of calls and of wraps of the counters, size() is the
\* number of elements accepted by the pushes that returned true minus the
\* number delivered by the pops that returned true, counted in unbounded
\* integers.
C14_OccupancyExact ==
    Quiescent => sizeOf(writeCounter, readCounter) = Len(pushed) - Len(popped)

-----------------------------------------------------------------------------
(* C15 - the slot of a logical position (Spec) *)

\* C15: the n-th element stored, n counted from 0 in unbounded integers, is
\* stored in slot n mod CAPACITY and read from slot n mod CAPACITY, and
\* mask of the wrapped counter is that slot: while the producer is at
\* element nWritten, mask(writeCounter) is nWritten mod CAPACITY and its
\* store goes to that slot and no other; while the consumer is at element
\* nRead, mask(readCounter) is nRead mod CAPACITY and its load takes that
\* slot; before, at and after the wrap of the counter.
C15_SlotMapping ==
    /\ [](/\ (prod.op = "push_range" /\ prod.pc \in {"copy", "inc"}) =>
                 mask(writeCounter) = nWritten % CAPACITY
          /\ (cons.op = "pop_range" /\ cons.pc \in {"copy", "inc"}) =>
                 mask(readCounter) = nRead % CAPACITY)
    /\ [][
          /\ (prod.op = "push_range" /\ prod.pc = "copy" /\ prod'.pc = "inc") =>
                 ( /\ buffer'[nWritten % CAPACITY] = ItemAt(prod, prod.idx)
                   /\ \A s \in 0 .. CAPACITY - 1 :
                          (s # nWritten % CAPACITY) => (buffer'[s] = buffer[s]) )
          /\ (cons.op = "pop_range" /\ cons.pc = "copy" /\ cons'.pc = "inc") =>
                 dest'[cons.idx] = buffer[nRead % CAPACITY]
       ]_vars

\* the producer has stored the element whose counter value is 0 after a wrap,
\* next to the one stored at the maximum of INDEX_TYPE, while the consumer
\* has loaded an element at a wrapped counter value too
C15_Witness ==
    /\ prod.op = "push_range" /\ prod.pc = "inc" /\ prod.idx > 0
    /\ writeCounter = 0 /\ nWritten > 0
    /\ buffer[CAPACITY - 1] = ItemAt(prod, prod.idx - 1)
    /\ cons.op = "pop_range" /\ cons.pc = "inc"
    /\ nRead >= 2 ^ INDEX_BITS

-----------------------------------------------------------------------------
(* C16 - how a batch advances the counters (Spec) *)

\* the write position is strictly between its value at the call of the
\* running push_range and that value plus length
WriteBetween ==
    /\ prod.op = "push_range" /\ prod.pc \in {"copy", "inc"}
    /\ prod.base < nWritten
    /\ Huge(prod.len) \/ nWritten < prod.base + ToNat(prod.len)

\* the read position is strictly between its value at the call of the
\* running pop_range and that value plus length
ReadBetween ==
    /\ cons.op = "pop_range" /\ cons.pc \in {"copy", "inc"}
    /\ Len(popped) < nRead
    /\ nRead < Len(popped) + ToNat(cons.len)

\* the advance as one step per batch: the consumer, about to load the write
\* position, never finds it strictly between its value before the running
\* push_range and that value plus length, and the producer never finds the
\* read position strictly inside a running pop_range
C16_BatchAdvanceAtomic ==
    /\ (cons.pc = "size" /\ cons.lw = NOT_LOADED) => ~WriteBetween
    /\ (prod.pc = "size" /\ prod.lr = NOT_LOADED) => ~ReadBetween

\* C16: a push_range that passed its check stores and publishes its elements
\* one by one: the write position is its value at the call plus the number j
\* of elements stored so far, 0 <= j <= length, every value in between
\* visible to the consumer, and it advances by one only after the element
\* it then covers is in its slot; a pop_range that passed its check advances
\* the read position in the same way, by one after each element copied out.
C16_BatchAdvanceStepwise ==
    /\ []((prod.op = "push_range" /\ prod.pc \in {"copy", "inc"}) =>
             /\ nWritten = prod.base + prod.idx
             /\ writeCounter = nWritten % (2 ^ INDEX_BITS)
             /\ ~Gt32(U32(prod.idx), prod.len)
             /\ prod.pc = "copy" => Lt32(U32(prod.idx), prod.len))
    /\ []((cons.op = "pop_range" /\ cons.pc \in {"copy", "inc"}) =>
             /\ nRead = Len(popped) + cons.idx
             /\ readCounter = nRead % (2 ^ INDEX_BITS)
             /\ ~Gt32(U32(cons.idx), cons.len)
             /\ cons.pc = "copy" => Lt32(U32(cons.idx), cons.len))
    /\ [][
          /\ writeCounter' # writeCounter =>
                ( /\ prod.op = "push_range" /\ prod.pc = "inc"
                  /\ buffer[mask(writeCounter)] = ItemAt(prod, prod.idx)
                  /\ writeCounter' = (writeCounter + 1) % (2 ^ INDEX_BITS) )
          /\ readCounter' # readCounter =>
                ( /\ cons.op = "pop_range" /\ cons.pc = "inc"
                  /\ readCounter' = (readCounter + 1) % (2 ^ INDEX_BITS) )
       ]_vars

\* the consumer of a pop_range about to load the write position while a
\* batch is half published, after the write counter wrapped
C16_Witness ==
    /\ cons.op = "pop_range" /\ cons.pc = "size" /\ cons.lw = NOT_LOADED
    /\ WriteBetween /\ ~Huge(prod.len)
    /\ nWritten > 2 ^ INDEX_BITS

-----------------------------------------------------------------------------
(* C17 - what size() tells its caller (Spec) *)

\* C17: with the two loads of size() in either order, the value it returns
\* to the consumer is at most the number of elements stored and not yet
\* consumed, the value it returns to the producer is at least that number,
\* and therefore a pop_range past its check never loads a slot that holds
\* no stored element and a push_range past its check never stores to a slot
\* whose element is not yet consumed.
C17_SizeConservative ==
    /\ SizeSeen(cons) => cons.sz <= nWritten - nRead
    /\ SizeSeen(prod) => prod.sz >= nWritten - nRead
    /\ (cons.op = "pop_range" /\ cons.pc = "copy") => nWritten - nRead >= 1
    /\ (prod.op = "push_range" /\ prod.pc = "copy") =>
           CAPACITY - (nWritten - nRead) >= 1

-----------------------------------------------------------------------------
(* C18 - callers that retry with fixed batch lengths (SpecRetry) *)

\* the pairs of lengths m, k with 1 <= m, k <= CAPACITY, m + k <= CAPACITY + 1
RetryLengths ==
    {p \in [push : 1 .. CAPACITY, pop : 1 .. CAPACITY] :
        p.push + p.pop <= CAPACITY + 1}

InitRetry == InitWith(ValidConfigs) /\ retry \in RetryLengths

\* the producer calls push_range(items, m) again and again
ProducerRetries ==
    \/ prod_call_push_range /\ prod'.len = U32(retry.push)
    \/ prod_size_load_write
    \/ prod_size_load_read
    \/ push_range_check
    \/ push_range_copy
    \/ push_range_inc
    \/ prod_return

\* the consumer calls pop_range(items, k) again and again
ConsumerRetries ==
    \/ cons_call_pop_range /\ cons'.len = U32(retry.pop)
    \/ cons_size_load_write
    \/ cons_size_load_read
    \/ pop_range_check
    \/ pop_range_copy
    \/ pop_range_inc
    \/ cons_return

NextRetry ==
    \/ ProducerRetries /\ NoPre
    \/ ConsumerRetries /\ NoPre

\* both threads are scheduled for ever
SpecRetry ==
    /\ InitRetry
    /\ [][NextRetry]_vars
    /\ WF_vars(ProducerRetries /\ NoPre)
    /\ WF_vars(ConsumerRetries /\ NoPre)

\* the producer has offered all the elements of the run
ProducerDone == Len(pushed) + retry.push > MaxPushed

\* C18: with a producer that always pushes m and a consumer that always pops
\* k elements, 1 <= m, k <= CAPACITY and m + k <= CAPACITY + 1, in every
\* state where no call is in progress the check of push_range(m) or the
\* check of pop_range(k) passes, and the two threads, retrying under weak
\* fairness, never stall: the producer gets all its batches in and the
\* consumer gets every complete batch of k out.
C18_NoMutualStall ==
    /\ [](Quiescent =>
             \/ ~PushRejects([sz |-> sizeOf(writeCounter, readCounter),
                              len |-> U32(retry.push)])
             \/ ~PopRejects([sz |-> sizeOf(writeCounter, readCounter),
                             len |-> U32(retry.pop)]))
    /\ <>[](ProducerDone /\ Len(pushed) - Len(popped) < retry.pop)

\* the tightest case, m + k = CAPACITY + 1 with k above 1: push_range(m) has
\* just been refused with both counters wrapped, and pop_range(k) is covered
C18_Witness ==
    /\ retry.push + retry.pop = CAPACITY + 1
    /\ retry.pop > 1
    /\ PushReturned /\ prod.ret = "false"
    /\ cons.pc = "idle"
    /\ BothWrapped
    /\ sizeOf(writeCounter, readCounter) >= retry.pop

-----------------------------------------------------------------------------
(* C19 - the copy loops of a queue of up to 2^31 slots (SpecLoop) *)

\* the largest value of the int32_t loop counter
INT32_MAX == 2147483647

\* iterations followed one by one at each end of a loop
MaxIter == 3

\* CAPACITY, a power of two from 2 to 2^31, is candidate; INDEX_TYPE is
\* uint32_t, so that size() is a uint32_t in 0 .. CAPACITY
LoopCapacities == {PowerOfTwo32(k) : k \in 1 .. 31}

\* the values of size() tried, for CAPACITY cap
LoopSizes(cap) == {U32(0), U32(1), Sub32(cap, U32(1)), cap}

\* the lengths tried, for CAPACITY cap
LoopLengths(cap) ==
    {U32(n) : n \in 0 .. MaxIter}
    \cup {Sub32(cap, U32(1)), cap, Add32(cap, U32(1))}
    \cup {U32(INT32_MAX), PowerOfTwo32(31)}
    \cup {U32Neg(k) : k \in 1 .. MaxWrap}

InitLoop ==
    /\ candidate \in LoopCapacities
    /\ compiled = "ok"
    /\ retry = NoRetry
    /\ \E op \in {"push_range", "pop_range"} :
       \E sz \in LoopSizes(candidate) :
       \E len \in LoopLengths(candidate) :
          loop = [op |-> op, pc |-> "check", sz |-> sz, len |-> len,
                  idx |-> 0, ret |-> "none"]
    /\ CAPACITY = 2 /\ INDEX_BITS = 2
    /\ buffer = [i \in 0 .. CAPACITY - 1 |-> UNINIT]
    /\ writeCounter = 0
    /\ readCounter = 0
    /\ prod = Idle
    /\ cons = Idle
    /\ dest = FreshDest
    /\ prodPre = NoSnapshot
    /\ consPre = NoSnapshot
    /\ pushed = <<>>
    /\ popped = <<>>
    /\ nWritten = 0
    /\ nRead = 0

LoopFrame ==
    UNCHANGED <<CAPACITY, INDEX_BITS, candidate, compiled, retry, queueVars,
                prod, cons, dest, prodPre, consPre, pushed, popped, nWritten,
                nRead>>

\* the check of either call, and the first test of its loop
loop_check ==
    /\ loop.pc = "check"
    /\ loop' = IF \/ loop.op = "push_range"
                     /\ PushRejects32(loop.sz, loop.len, candidate)
                  \/ loop.op = "pop_range"
                     /\ PopRejects32(loop.len, loop.sz)
               THEN [loop EXCEPT !.pc = "ret", !.ret = "false"]
               ELSE LoopTest([loop EXCEPT !.idx = 0])
    /\ LoopFrame

\* the value of idx at which the test fails, or at which ++idx leaves the
\* range of int32_t, whichever comes first
LoopEnd(t) == IF Lt32(t.len, U32(INT32_MAX)) THEN ToNat(t.len) ELSE INT32_MAX

\* one iteration: the body, ++idx and the test
loop_iteration ==
    /\ loop.pc = "copy"
    /\ loop.idx < INT32_MAX
    /\ loop.idx < MaxIter \/ loop.idx >= LoopEnd(loop) - MaxIter
    /\ loop' = LoopTest([loop EXCEPT !.idx = loop.idx + 1])
    /\ LoopFrame

\* the iterations from idx = MaxIter to idx = LoopEnd - MaxIter at once: the
\* test passes at each of them, idx being below length and below INT32_MAX
loop_iterations ==
    /\ loop.pc = "copy"
    /\ loop.idx = MaxIter
    /\ loop.idx < LoopEnd(loop) - MaxIter
    /\ loop' = LoopTest([loop EXCEPT !.idx = LoopEnd(loop) - MaxIter])
    /\ LoopFrame

\* the body at idx = INT32_MAX, then ++idx: signed overflow, undefined
loop_counter_overflow ==
    /\ loop.pc = "copy"
    /\ loop.idx = INT32_MAX
    /\ loop' = [loop EXCEPT !.pc = "overflow"]
    /\ LoopFrame

NextLoop ==
    \/ loop_check
    \/ loop_iteration
    \/ loop_iterations
    \/ loop_counter_overflow

SpecLoop == InitLoop /\ [][NextLoop]_vars

\* C19: for every length from 0 to CAPACITY that passes the check of
\* push_range or pop_range, CAPACITY a power of two up to 2^31, the loop
\* ends with idx equal to length, having run length iterations, and idx is
\* never incremented beyond the largest int32_t.
C19_LoopCount ==
    (loop.pc \in {"copy", "ret", "overflow"} /\ loop.ret # "false"
       /\ ~Gt32(loop.len, candidate)) =>
        /\ loop.pc # "overflow"
        /\ ~Gt32(U32(loop.idx), loop.len)
        /\ loop.pc = "ret" => U32(loop.idx) = loop.len

=============================================================================
